---------------------------- MODULE Spec2Model ----------------------------
(***************************************************************************)
(* A model of penn_chime/models.py: the SIR stepper and trajectory         *)
(* generator, the disposition / admission / census pipeline, and the       *)
(* SimSirModel constructor with its two calibration branches.              *)
(*                                                                         *)
(* Numbers.  A Python float is a pair <<num, den>>.  The variable arith    *)
(* fixes how float arithmetic is read in a behaviour:                      *)
(*   "exact"  every operation is exact over the rationals (the real number *)
(*            the float approximates); pairs are kept in lowest terms;     *)
(*   "fixed"  every operation rounds down to a multiple of 1/Q; pairs are  *)
(*            <<k, Q>>.                                                    *)
(* NaN is <<0, 0>> and poisons every operation, as in IEEE arithmetic.     *)
(* None is the empty tuple; an optional int k is <<k>>.                    *)
(*                                                                         *)
(* A pandas Series is a sequence whose position j holds label j - 1 (all   *)
(* frames here carry a RangeIndex); a DataFrame is a record of columns.    *)
(***************************************************************************)
EXTENDS Integers, Sequences, FiniteSets, TLC

VARIABLES
    arith,   \* "exact" or "fixed": how float arithmetic is read
    p,       \* the Parameters instance handed to SimSirModel
    self,    \* the attributes of the SimSirModel under construction
    loc,     \* the local variables of SimSirModel.__init__
    pc,      \* the position inside SimSirModel.__init__
    runs,    \* how many times SimSirModel(p) has been entered
    gen,     \* the frame of a gen_sir generator driven on its own
    rows     \* the tuples that generator has yielded so far

vars == <<arith, p, self, loc, pc, runs, gen, rows>>

None == <<>>

-----------------------------------------------------------------------------
(* Bounds of the model.                                                    *)

\* Units per 1 of the rounded arithmetic.
Q == 2048
\* Largest projection horizon p.n_days.
MaxNDays == 4
\* Largest length of stay of a disposition.
MaxLos == 2
\* Largest distance, in days, from date_first_hospitalized to current_date.
MaxDaysSince == 2
\* How many times the constructor is run on the same Parameters.
MaxRuns == 2
\* Largest n_days of a generator driven on its own.
MaxGenDays == 2
\* Largest compartment size of a generator driven on its own.
MaxCompartment == 2

(* Program constants.                                                      *)

\* dts = np.linspace(1, 15, 29)
NumCandidates == 29

-----------------------------------------------------------------------------
(* Float arithmetic.                                                       *)

NaN == <<0, 0>>

IsNaN(x) == x[2] = 0

Abs(k) == IF k < 0 THEN -k ELSE k

Max(a, b) == IF a < b THEN b ELSE a

RECURSIVE GCD(_, _)
GCD(a, b) == IF b = 0 THEN a ELSE GCD(b, a % b)

\* n / d in lowest terms, d # 0.
Norm(n, d) ==
    LET g == GCD(Abs(n), Abs(d))
        s == IF d < 0 THEN -1 ELSE 1
    IN  <<s * (n \div g), s * (d \div g)>>

\* The float written a / b for integers a and b > 0.
Frac(a, b) ==
    IF arith = "exact" THEN Norm(a, b) ELSE <<(a * Q) \div b, Q>>

\* float(k) of an int k.
Float(k) == Frac(k, 1)

Neg(x) == IF IsNaN(x) THEN NaN ELSE <<-x[1], x[2]>>

Add(x, y) ==
    IF IsNaN(x) \/ IsNaN(y) THEN NaN
    ELSE IF arith = "exact"
         THEN LET l == (x[2] \div GCD(x[2], y[2])) * y[2]
              IN  Norm(x[1] * (l \div x[2]) + y[1] * (l \div y[2]), l)
         ELSE <<x[1] + y[1], Q>>

Sub(x, y) == Add(x, Neg(y))

Mul(x, y) ==
    IF IsNaN(x) \/ IsNaN(y) THEN NaN
    ELSE IF arith = "exact"
         THEN LET g1 == GCD(Abs(x[1]), y[2])
                  g2 == GCD(Abs(y[1]), x[2])
              IN  Norm((x[1] \div g1) * (y[1] \div g2),
                       (x[2] \div g2) * (y[2] \div g1))
         ELSE <<(x[1] \div Q) * y[1] + ((x[1] % Q) * y[1]) \div Q, Q>>

\* x / y.  A zero divisor gives NaN here; the callers that can meet one
\* (sir) turn it into the ZeroDivisionError Python raises.
Div(x, y) ==
    IF IsNaN(x) \/ IsNaN(y) \/ y[1] = 0 THEN NaN
    ELSE IF arith = "exact"
         THEN LET g1 == GCD(Abs(x[1]), Abs(y[1]))
                  g2 == GCD(x[2], y[2])
              IN  Norm((x[1] \div g1) * (y[2] \div g2),
                       (x[2] \div g2) * (y[1] \div g1))
         ELSE <<(x[1] * Q) \div y[1], Q>>

\* np.ceil
Ceil(x) ==
    IF IsNaN(x) THEN NaN
    ELSE IF arith = "exact"
         THEN <<(x[1] + x[2] - 1) \div x[2], 1>>
         ELSE <<((x[1] + Q - 1) \div Q) * Q, Q>>

\* x < y on floats; FALSE when either is NaN.
Less(x, y) ==
    /\ ~IsNaN(x)
    /\ ~IsNaN(y)
    /\ IF x[2] = y[2] THEN x[1] < y[1] ELSE x[1] * y[2] < y[1] * x[2]

\* x ** 2.0
Square(x) == Mul(x, x)

-----------------------------------------------------------------------------
(* pandas Series operations (position j holds label j - 1).                *)

\* The function f on 1..n as a sequence of computed values.  (TLC keeps a
\* function constructor unevaluated and evaluates its body at every
\* application; a sequence is evaluated once.)
Series(f) == SubSeq(f, 1, Len(f))

\* s.shift(k), k >= 0
Shift(s, k) ==
    Series([j \in 1..Len(s) |-> IF j - k >= 1 THEN s[j - k] ELSE NaN])

\* s.fillna(0)
FillNa0(s) ==
    Series([j \in 1..Len(s) |-> IF IsNaN(s[j]) THEN Float(0) ELSE s[j]])

\* s.iloc[:-k]; the slice is empty when k = 0 or k >= len(s).
ILocDropLast(s, k) ==
    IF k <= 0 \/ k >= Len(s) THEN <<>> ELSE SubSeq(s, 1, Len(s) - k)

\* The sum of the non-NaN values among s[1..k].
RECURSIVE SumSkipNa(_, _)
SumSkipNa(s, k) ==
    IF k = 0 THEN Float(0)
    ELSE IF IsNaN(s[k]) THEN SumSkipNa(s, k - 1)
         ELSE Add(SumSkipNa(s, k - 1), s[k])

\* s.cumsum(): NaN entries are skipped by the running sum and stay NaN.
CumSum(s) ==
    Series([j \in 1..Len(s) |-> IF IsNaN(s[j]) THEN NaN ELSE SumSkipNa(s, j)])

\* a - b for two Series: the operands are aligned on the union of their
\* labels, and a label missing on either side gives NaN.
AlignedSub(a, b) ==
    Series([j \in 1..Max(Len(a), Len(b)) |->
               IF j <= Len(a) /\ j <= Len(b) THEN Sub(a[j], b[j]) ELSE NaN])

\* s.apply(np.ceil)
ApplyCeil(s) == Series([j \in 1..Len(s) |-> Ceil(s[j])])

\* s.argmin() of pandas >= 1.0: the position (from 0) of the first minimum
\* among the non-NaN values, -1 when every value is NaN.
ArgMin(s) ==
    LET def == {j \in 1..Len(s) : ~IsNaN(s[j])}
    IN  IF def = {} THEN -1
        ELSE (CHOOSE j \in def :
                 /\ \A k \in def : ~Less(s[k], s[j])
                 /\ \A k \in def : k < j => Less(s[j], s[k])) - 1

-----------------------------------------------------------------------------
(* The pure functions of models.py.                                        *)

\* 100000 * 2.0 ** (1.0 / dt) for dt = k / 2, k = 2..30, to five decimals.
\* Exponentiation with a fractional exponent has no exact counterpart here;
\* the table covers np.linspace(1, 15, 29), the doubling times the model is
\* run with.
Pow2InvTable ==
    <<200000, 158740, 141421, 131951, 125992, 121901, 118921, 116653,
      114870, 113431, 112246, 111253, 110409, 109682, 109051, 108496,
      108006, 107569, 107177, 106824, 106504, 106213, 105946, 105702,
      105477, 105269, 105076, 104896, 104729>>

\* The number of half days nearest to the doubling time dt.
HalfDays(dt) == (4 * dt[1] + dt[2]) \div (2 * dt[2])

\* 2.0 ** (1.0 / dt)
Pow2Inv(dt) == Frac(Pow2InvTable[HalfDays(dt) - 1], 100000)

get_growth_rate(doubling_time) ==
    IF doubling_time = None \/ doubling_time[1] = 0
    THEN Float(0)
    ELSE Sub(Pow2Inv(doubling_time), Float(1))

get_beta(intrinsic_growth_rate, gamma, susceptible, relative_contact_rate) ==
    Mul(Div(Add(intrinsic_growth_rate, gamma), susceptible),
        Sub(Float(1), relative_contact_rate))

\* get_growth_rate(1.0 / np.log2(x)) = 2.0 ** np.log2(x) - 1.0: x - 1 for
\* x > 0, 0.0 for x = 0 (1 / -inf is -0.0) and nan below.
GrowthOfInvLog2(x) ==
    IF IsNaN(x) \/ x[1] < 0 THEN NaN
    ELSE IF x[1] = 0 THEN Float(0) ELSE Sub(x, Float(1))

\* (An operator that uses a computed value several times takes it as a
\* parameter, from a caller that computes it once: TLC's coverage of a LET
\* definition grows with every place that names it.)

\* return s_n * scale, i_n * scale, r_n * scale
Scaled(s_n, i_n, r_n, scale) ==
    <<Mul(s_n, scale), Mul(i_n, scale), Mul(r_n, scale)>>

\* Rescaled with the recovered compartment left out of the divisor.
RescaledWithoutRecovered(s_n, i_n, r_n, n) ==
    Scaled(s_n, i_n, r_n, Div(n, Add(s_n, i_n)))

\* scale = n / (s_n + i_n + r_n), and the return.
Rescaled(s_n, i_n, r_n, n) ==
    Scaled(s_n, i_n, r_n, Div(n, Add(Add(s_n, i_n), r_n)))

\* The SIR model, one time step.  The result is <<s, i, r>>; it is NaN
\* throughout when the rescaling divides by zero.
sir(s, i, r, beta, gamma, n) ==
    Rescaled(Add(Mul(Mul(Neg(beta), s), i), s),
             Add(Sub(Mul(Mul(beta, s), i), Mul(gamma, i)), i),
             Add(Mul(gamma, i), r),
             n)

\* gen_sir up to its first yield: the generator's frame.  left counts the
\* iterations of `for _ in range(n_days)` still to run.
gen_start(s, i, r, beta, gamma, n_days, i_day) ==
    [s |-> s, i |-> i, r |-> r, beta |-> beta, gamma |-> gamma,
     n |-> Add(Add(s, i), r), d |-> i_day, left |-> Max(n_days, 0)]

\* The tuple the frame yields: d, s, i, r.
gen_row(f) == <<f.d, f.s, f.i, f.r>>

\* s, i, r = t; d += 1
gen_assign(f, t) ==
    [f EXCEPT !.s = t[1], !.i = t[2], !.r = t[3],
              !.d = f.d + 1, !.left = f.left - 1]

\* The frame at the next yield, after one pass through the loop body.
gen_resume(f) == gen_assign(f, sir(f.s, f.i, f.r, f.beta, f.gamma, f.n))

\* Every tuple the generator yields from frame f on.
RECURSIVE gen_drain(_)
gen_drain(f) ==
    IF f.left = 0 THEN <<gen_row(f)>>
    ELSE <<gen_row(f)>> \o gen_drain(gen_resume(f))

gen_sir(s, i, r, beta, gamma, n_days, i_day) ==
    gen_drain(gen_start(s, i, r, beta, gamma, n_days, i_day))

\* pd.DataFrame(data=data, columns=(day, susceptible, infected, recovered))
RawFrame(data) ==
    LET col(c) == Series([j \in 1..Len(data) |-> data[j][c]])
    IN  [day |-> col(1), susceptible |-> col(2),
         infected |-> col(3), recovered |-> col(4)]

sim_sir_df(s, i, r, beta, gamma, n_days, i_day) ==
    RawFrame(gen_sir(s, i, r, beta, gamma, n_days, i_day))

\* The disposition keys of p.dispositions; every frame of the pipeline has
\* the columns day and date and one column per key.
Keys == {"hospitalized", "icu"}

\* day.astype('timedelta64[D]') + np.datetime64(current_date), as a day
\* number.
DateOf(day, current_date) ==
    Series([j \in 1..Len(day) |-> day[j] + current_date])

build_sim_sir_w_date_df(raw_df, current_date) ==
    [day |-> raw_df.day,
     date |-> DateOf(raw_df.day, current_date),
     susceptible |-> raw_df.susceptible,
     infected |-> raw_df.infected,
     recovered |-> raw_df.recovered]

\* patients * rate * market_share
DispositionOf(patients, rate, market_share) ==
    Series([j \in 1..Len(patients) |->
               Mul(Mul(patients[j], rate), market_share)])

\* raw_df.infected + raw_df.recovered
PatientsOf(raw_df) ==
    Series([j \in 1..Len(raw_df.day) |->
               Add(raw_df.infected[j], raw_df.recovered[j])])

build_dispositions_df(raw_df, rates, market_share, current_date) ==
    [day |-> raw_df.day,
     date |-> DateOf(raw_df.day, current_date),
     hospitalized |->
         DispositionOf(PatientsOf(raw_df), rates.hospitalized, market_share),
     icu |-> DispositionOf(PatientsOf(raw_df), rates.icu, market_share)]

\* One column of dispositions_df.iloc[:-1, :] - dispositions_df.shift(1).
AdmitsOf(disposition) ==
    AlignedSub(ILocDropLast(disposition, 1), Shift(disposition, 1))

\* The difference of the frames, then day and date copied back from
\* dispositions_df.
build_admits_df(dispositions_df) ==
    [day |-> dispositions_df.day,
     date |-> dispositions_df.date,
     hospitalized |-> AdmitsOf(dispositions_df.hospitalized),
     icu |-> AdmitsOf(dispositions_df.icu)]

\* CensusOf with the running total shifted by one day too few.
CensusOfShortWindow(admits, los) ==
    ApplyCeil(AlignedSub(ILocDropLast(CumSum(admits), los),
                         FillNa0(Shift(CumSum(admits), los - 1))))

\* One column of the census: admits.cumsum().iloc[:-los]
\* - admits.cumsum().shift(los).fillna(0), then .apply(np.ceil).
CensusOf(admits, los) ==
    ApplyCeil(AlignedSub(ILocDropLast(CumSum(admits), los),
                         FillNa0(Shift(CumSum(admits), los))))

build_census_df(admits_df, lengths_of_stay) ==
    [day |-> admits_df.day,
     date |-> admits_df.date,
     hospitalized |->
         CensusOf(admits_df.hospitalized, lengths_of_stay.hospitalized),
     icu |-> CensusOf(admits_df.icu, lengths_of_stay.icu)]

\* get_argmin_ds without the square: the argmin of the signed error.
get_argmin_ds_signed(census_df, current_hospitalized) ==
    LET losses_df == Series([j \in 1..Len(census_df.hospitalized) |->
                                Sub(census_df.hospitalized[j],
                                    current_hospitalized)])
    IN  ArgMin(losses_df)

get_argmin_ds(census_df, current_hospitalized) ==
    LET losses_df == Series([j \in 1..Len(census_df.hospitalized) |->
                                Square(Sub(census_df.hospitalized[j],
                                           current_hospitalized))])
    IN  ArgMin(losses_df)

\* Whether label k is in the RangeIndex of a Series; s.loc[k] raises
\* KeyError when it is not.
HasLabel(s, k) == 0 <= k /\ k < Len(s)

\* s.loc[k] for a label k the Series has.
Loc(s, k) == s[k + 1]

-----------------------------------------------------------------------------
(* SimSirModel.                                                            *)

\* constants.EPSILON
EPSILON == Frac(1, 10000000)

\* dts = np.linspace(1, 15, 29): dts[k], k from 0, is 1 + k / 2.
dts(k) == Frac(2 + k, 2)

\* dts[k] as Python indexes an array: a negative k counts from the end.
DtsAt(k) == IF k < 0 THEN dts(NumCandidates + k) ELSE dts(k)

\* np.zeros(n)
Zeros(n) == Series([j \in 1..n |-> Float(0)])

\* A SimSirModel before __init__ has set any attribute.
BlankSelf ==
    [n_days_since |-> None, rates |-> None, lengths_of_stay |-> None,
     susceptible |-> None, infected |-> None, recovered |-> None,
     detection_probability |-> None, doubling_time_t |-> None,
     beta |-> None, gamma |-> None, intrinsic_growth_rate |-> None,
     r_t |-> None, r_naught |-> None, i_day |-> None,
     raw_df |-> None, dispositions_df |-> None, admits_df |-> None,
     census_df |-> None, current_infected |-> None,
     current_hospitalized |-> None, population |-> None,
     sim_sir_w_date_df |-> None, daily_growth_rate |-> None,
     daily_growth_rate_t |-> None]

\* The locals of __init__ before it runs.
BlankLoc ==
    [infected |-> None, susceptible |-> None,
     intrinsic_growth_rate |-> None, gamma |-> None, beta |-> None,
     r_t |-> None, r_naught |-> None, doubling_time_t |-> None,
     i |-> 0, losses |-> None]

\* Whether self.raw_df.infected.loc[self.i_day], the last statement of
\* run_projection, raises KeyError.
ProjectionRaises(slf) == ~HasLabel(slf.raw_df.infected, slf.i_day[1])

\* self.current_infected = self.raw_df.infected.loc[self.i_day]; when it
\* raises, current_infected keeps its value.
SetCurrentInfected(slf) ==
    IF ProjectionRaises(slf) THEN slf
    ELSE [slf EXCEPT
             !.current_infected = Loc(slf.raw_df.infected, slf.i_day[1])]

\* self.census_df = build_census_df(self.admits_df, self.lengths_of_stay)
SetCensus(slf) ==
    [slf EXCEPT
        !.census_df = build_census_df(slf.admits_df, slf.lengths_of_stay)]

\* self.admits_df = build_admits_df(self.dispositions_df)
SetAdmits(slf) ==
    [slf EXCEPT !.admits_df = build_admits_df(slf.dispositions_df)]

\* self.dispositions_df = build_dispositions_df(self.raw_df, self.rates,
\* p.market_share, p.current_date)
SetDispositions(slf, prm) ==
    [slf EXCEPT
        !.dispositions_df =
            build_dispositions_df(slf.raw_df, slf.rates, prm.market_share,
                                  prm.current_date)]

\* self.raw_df = sim_sir_df(...)
SetRaw(slf, prm) ==
    [slf EXCEPT
        !.raw_df = sim_sir_df(slf.susceptible, slf.infected, prm.recovered,
                              slf.beta, slf.gamma,
                              prm.n_days + slf.i_day[1], -slf.i_day[1])]

\* SimSirModel.run_projection: self afterwards, statement by statement.
run_projection(slf, prm) ==
    SetCurrentInfected(SetCensus(SetAdmits(SetDispositions(SetRaw(slf, prm),
                                                           prm))))

\* SimSirModel.get_loss
get_loss(slf) ==
    LET predicted == Loc(slf.census_df.hospitalized, slf.n_days_since[1])
    IN  Square(Sub(slf.current_hospitalized, predicted))

\* Lines 34-98: everything __init__ derives before it branches.
Construct ==
    /\ pc \in {"idle", "done", "AssertionError", "KeyError"}
    /\ runs < MaxRuns
    /\ runs' = runs + 1
    /\ LET n_days_since ==
               IF p.date_first_hospitalized # None
               THEN <<p.current_date - p.date_first_hospitalized[1]>>
               ELSE None
           infected == Div(Div(p.current_hospitalized, p.market_share),
                           p.dispositions.hospitalized.rate)
           susceptible == Sub(p.population, infected)
           detection_probability ==
               IF Less(EPSILON, infected)
               THEN Div(p.known_infected, infected) ELSE None
           intrinsic_growth_rate == get_growth_rate(p.doubling_time)
           gamma == Div(Float(1), Float(p.infectious_days))
           beta == Mul(Div(Add(intrinsic_growth_rate, gamma), susceptible),
                       Sub(Float(1), p.relative_contact_rate))
           r_t == Mul(Div(beta, gamma), susceptible)
           r_naught == Div(Add(intrinsic_growth_rate, gamma), gamma)
           doubling_time_t ==
               [inv_log2 |-> Add(Sub(Mul(beta, susceptible), gamma), Float(1))]
       IN  /\ self' = [BlankSelf EXCEPT
                   !.n_days_since = n_days_since,
                   !.rates = [k \in Keys |-> p.dispositions[k].rate],
                   !.lengths_of_stay =
                       [k \in Keys |-> p.dispositions[k].length_of_stay],
                   !.susceptible = susceptible,
                   !.recovered = p.recovered,
                   !.detection_probability = detection_probability,
                   !.doubling_time_t = doubling_time_t,
                   !.beta = beta,
                   !.gamma = gamma,
                   !.intrinsic_growth_rate = intrinsic_growth_rate,
                   !.r_t = r_t,
                   !.r_naught = r_naught,
                   !.infected = Div(Div(Float(1),
                                        p.dispositions.hospitalized.rate),
                                    p.market_share)]
           /\ loc' = [BlankLoc EXCEPT
                   !.infected = infected,
                   !.susceptible = susceptible,
                   !.intrinsic_growth_rate = intrinsic_growth_rate,
                   !.gamma = gamma,
                   !.beta = beta,
                   !.r_t = r_t,
                   !.r_naught = r_naught,
                   !.doubling_time_t = doubling_time_t]
    /\ pc' = "branch"
    /\ UNCHANGED <<arith, p, gen, rows>>

\* UsesDoublingTime without the test of date_first_hospitalized.
UsesDoublingTimeGiven(prm) == prm.doubling_time # None

\* Line 100: p.date_first_hospitalized is None and p.doubling_time is not None
UsesDoublingTime(prm) ==
    prm.date_first_hospitalized = None /\ prm.doubling_time # None

\* Line 117: p.date_first_hospitalized is not None and p.doubling_time is None
UsesDateFirstHospitalized(prm) ==
    prm.date_first_hospitalized # None /\ prm.doubling_time = None

\* Lines 100-108: the doubling-time branch up to its first projection.
UseDoublingTime ==
    /\ pc = "branch"
    /\ UsesDoublingTime(p)
    /\ self' = run_projection(
                   [self EXCEPT
                       !.i_day = <<0>>,
                       !.beta = Div(Add(loc.intrinsic_growth_rate, loc.gamma),
                                    loc.susceptible)],
                   p)
    /\ pc' = "dz_argmin"
    /\ UNCHANGED <<arith, p, loc, runs, gen, rows>>

\* Line 109: self.i_day = i_day = int(get_argmin_ds(...)).
DayZeroArgmin ==
    /\ pc = "dz_argmin"
    /\ self' = [self EXCEPT
                   !.i_day = <<get_argmin_ds(self.census_df,
                                             p.current_hospitalized)>>]
    /\ pc' = "dz_rerun"
    /\ UNCHANGED <<arith, p, loc, runs, gen, rows>>

\* Line 110: the second projection, anchored at i_day.
DayZeroRerun ==
    /\ pc = "dz_rerun"
    /\ self' = run_projection(self, p)
    /\ pc' = IF ProjectionRaises(self') THEN "KeyError" ELSE "dz_adopt"
    /\ UNCHANGED <<arith, p, loc, runs, gen, rows>>

\* Lines 111-115.
DayZeroAdopt ==
    /\ pc = "dz_adopt"
    /\ self' = [self EXCEPT
                   !.infected = self.raw_df.infected[self.i_day[1] + 1],
                   !.susceptible = self.raw_df.susceptible[self.i_day[1] + 1],
                   !.recovered = self.raw_df.recovered[self.i_day[1] + 1],
                   !.n_days_since = self.i_day]
    /\ pc' = "finish"
    /\ UNCHANGED <<arith, p, loc, runs, gen, rows>>

\* Lines 117-123: the date-first-hospitalized branch up to its loop.
UseDateFirstHospitalized ==
    /\ pc = "branch"
    /\ ~UsesDoublingTime(p)
    /\ UsesDateFirstHospitalized(p)
    /\ self' = [self EXCEPT
                   !.i_day = self.n_days_since,
                   !.current_hospitalized = p.current_hospitalized]
    /\ loc' = [loc EXCEPT !.losses = Zeros(NumCandidates), !.i = 0]
    /\ pc' = "calib_loop"
    /\ UNCHANGED <<arith, p, runs, gen, rows>>

\* Lines 124-130: one pass of `for i, i_dt in enumerate(dts)`.
CalibCandidate ==
    /\ pc = "calib_loop"
    /\ loc.i < NumCandidates
    /\ self' = run_projection(
                   [self EXCEPT
                       !.beta = get_beta(get_growth_rate(dts(loc.i)),
                                         self.gamma, self.susceptible,
                                         Float(0))],
                   p)
    /\ IF ProjectionRaises(self')
       THEN /\ pc' = "KeyError"
            /\ loc' = [loc EXCEPT
                          !.intrinsic_growth_rate = get_growth_rate(dts(loc.i))]
       ELSE /\ pc' = "calib_loop"
            /\ loc' = [loc EXCEPT
                          !.intrinsic_growth_rate = get_growth_rate(dts(loc.i)),
                          !.losses[loc.i + 1] = get_loss(self'),
                          !.i = loc.i + 1]
    /\ UNCHANGED <<arith, p, runs, gen, rows>>

\* Lines 132-136: the loop is over; the fitted doubling time is written
\* into p and the projection is run with it.
CalibSelect ==
    /\ pc = "calib_loop"
    /\ loc.i = NumCandidates
    /\ LET doubling_time == DtsAt(ArgMin(loc.losses))
           intrinsic_growth_rate == get_growth_rate(doubling_time)
       IN  /\ p' = [p EXCEPT !.doubling_time = doubling_time]
           /\ loc' = [loc EXCEPT
                         !.intrinsic_growth_rate = intrinsic_growth_rate]
           /\ self' = run_projection(
                          [self EXCEPT
                              !.beta = get_beta(intrinsic_growth_rate,
                                                self.gamma, self.susceptible,
                                                Float(0))],
                          p')
    /\ pc' = "calib_restore"
    /\ UNCHANGED <<arith, runs, gen, rows>>

\* Lines 138-143.
CalibRestore ==
    /\ pc = "calib_restore"
    /\ self' = [self EXCEPT
                   !.intrinsic_growth_rate = loc.intrinsic_growth_rate,
                   !.beta = loc.beta,
                   !.doubling_time_t = loc.doubling_time_t,
                   !.population = p.population,
                   !.r_t = loc.r_t,
                   !.r_naught = loc.r_naught]
    /\ pc' = "finish"
    /\ UNCHANGED <<arith, p, loc, runs, gen, rows>>

\* Lines 144-145.
RaiseAssertionError ==
    /\ pc = "branch"
    /\ ~UsesDoublingTime(p)
    /\ ~UsesDateFirstHospitalized(p)
    /\ pc' = "AssertionError"
    /\ UNCHANGED <<arith, p, self, loc, runs, gen, rows>>

\* Lines 148-151.
Finish ==
    /\ pc = "finish"
    /\ self' = [self EXCEPT
                   !.sim_sir_w_date_df =
                       build_sim_sir_w_date_df(self.raw_df, p.current_date),
                   !.daily_growth_rate = get_growth_rate(p.doubling_time),
                   !.daily_growth_rate_t =
                       GrowthOfInvLog2(self.doubling_time_t.inv_log2)]
    /\ pc' = "done"
    /\ UNCHANGED <<arith, p, loc, runs, gen, rows>>

-----------------------------------------------------------------------------
(* The Parameters the constructor is run with.                             *)

\* p.current_date, as a day number.
Today == 10

\* p.population
Population == 40

Dispositions ==
    {[hospitalized |-> [rate |-> Frac(1, 2), length_of_stay |-> lh],
      icu |-> [rate |-> Frac(1, 4), length_of_stay |-> li]] :
        lh \in 1..MaxLos, li \in 1..MaxLos}

DoublingTimes == {None, Frac(0, 1), Frac(2, 1), Frac(4, 1)}

FirstHospitalized ==
    {None} \cup {<<Today - k>> : k \in (-1)..MaxDaysSince}

Params ==
    {[population |-> Float(Population),
      current_hospitalized |-> Float(ch),
      market_share |-> ms,
      known_infected |-> Float(1),
      current_date |-> Today,
      date_first_hospitalized |-> dfh,
      doubling_time |-> dt,
      relative_contact_rate |-> rcr,
      infectious_days |-> 2,
      n_days |-> nd,
      recovered |-> Float(rec),
      dispositions |-> disp] :
        ch \in 1..3, ms \in {Frac(1, 2), Frac(1, 1)},
        dfh \in FirstHospitalized, dt \in DoublingTimes,
        rcr \in {Frac(0, 1), Frac(1, 2)}, nd \in 0..MaxNDays,
        rec \in 0..1, disp \in Dispositions}

Init ==
    /\ arith = "fixed"
    /\ p \in Params
    /\ self = BlankSelf
    /\ loc = BlankLoc
    /\ pc = "idle"
    /\ runs = 0
    /\ gen = None
    /\ rows = <<>>

Next ==
    \/ Construct
    \/ UseDoublingTime
    \/ DayZeroArgmin
    \/ DayZeroRerun
    \/ DayZeroAdopt
    \/ UseDateFirstHospitalized
    \/ CalibCandidate
    \/ CalibSelect
    \/ CalibRestore
    \/ RaiseAssertionError
    \/ Finish

Spec == Init /\ [][Next]_vars

-----------------------------------------------------------------------------
(* gen_sir driven on its own, one yield at a time, in exact arithmetic.    *)

\* The offsets i_day a generator is started with.
GenIDays == {-1, 0, 1}

GenBetas == {Frac(0, 1), Frac(1, 4), Frac(1, 2)}

GenGammas == {Frac(0, 1), Frac(1, 2)}

\* Lines 239 and 242: the generator yields d, s, i, r; after the yield of
\* line 242 it is exhausted.
GenYield ==
    /\ pc = "gen_yield"
    /\ rows' = Append(rows, gen_row(gen))
    /\ pc' = IF gen.left = 0 THEN "gen_end" ELSE "gen_body"
    /\ UNCHANGED <<arith, p, self, loc, runs, gen>>

\* Lines 240-241: the consumer asks for the next tuple.  A zero divisor in
\* sir raises ZeroDivisionError out of the generator.
GenBody ==
    /\ pc = "gen_body"
    /\ IF IsNaN(sir(gen.s, gen.i, gen.r, gen.beta, gen.gamma, gen.n)[1])
       THEN pc' = "ZeroDivisionError" /\ gen' = gen
       ELSE pc' = "gen_yield" /\ gen' = gen_resume(gen)
    /\ UNCHANGED <<arith, p, self, loc, runs, rows>>

InitSir ==
    /\ arith = "exact"
    /\ p = None
    /\ self = BlankSelf
    /\ loc = BlankLoc
    /\ pc = "gen_yield"
    /\ runs = 0
    /\ \E s \in 0..MaxCompartment, i \in 0..MaxCompartment,
          r \in 0..MaxCompartment, beta \in GenBetas, gamma \in GenGammas,
          n_days \in 0..MaxGenDays, i_day \in GenIDays :
            gen = gen_start(Float(s), Float(i), Float(r), beta, gamma,
                            n_days, i_day)
    /\ rows = <<>>

NextSir ==
    \/ GenYield
    \/ GenBody

SpecSir == InitSir /\ [][NextSir]_vars

-----------------------------------------------------------------------------
(* The properties.                                                         *)

\* S + I + R of a yielded tuple <<d, s, i, r>>.
RowTotal(row) == Add(Add(row[2], row[3]), row[4])

\* x == y on floats; FALSE when either is NaN.
Same(x, y) == ~IsNaN(x) /\ ~IsNaN(y) /\ x = y

\* x <= y on floats; FALSE when either is NaN.
LessEq(x, y) == Less(x, y) \/ Same(x, y)

\* The positions of a Series that hold a defined value.
Valid(s) == {j \in 1..Len(s) : ~IsNaN(s[j])}

\* s[lo] + ... + s[hi], 0.0 for an empty range.
RECURSIVE SumBetween(_, _, _)
SumBetween(s, lo, hi) ==
    IF hi < lo THEN Float(0) ELSE Add(SumBetween(s, lo, hi - 1), s[hi])

\* (x - target) ** 2
SquaredError(x, target) == Square(Sub(x, target))

\* The constructor has returned, and it took the doubling-time branch.
DoneByDoublingTime == pc = "done" /\ loc.losses = None

\* The constructor has returned, and it took the date-first-hospitalized
\* branch.
DoneByDate == pc = "done" /\ loc.losses # None

\* C1: when the initial S + I + R is positive, every tuple a gen_sir
\* generator has yielded sums to that initial total; each tuple after the
\* first is the result of one call of sir on the tuple before it.
C1_Conservation ==
    (rows # <<>> /\ Less(Float(0), RowTotal(rows[1]))) =>
        \A j \in 1..Len(rows) : RowTotal(rows[j]) = RowTotal(rows[1])

\* A generator has yielded three tuples of positive total, and infected
\* and recovered have both moved.
C1_Witness ==
    /\ Len(rows) = 3
    /\ Less(Float(0), RowTotal(rows[1]))
    /\ rows[3][3] # rows[1][3]
    /\ rows[3][4] # rows[1][4]

DayZeroPcs == {"dz_argmin", "dz_rerun", "dz_adopt"}

CalibPcs == {"calib_loop", "calib_restore"}

\* C2: from the branch point the constructor enters the Day-Zero branch
\* exactly when only doubling_time is supplied, the calibration loop exactly
\* when only date_first_hospitalized is supplied, and raises AssertionError
\* with no table built when both or neither is supplied; the positions of a
\* branch are entered from the branch point only, so one run executes one
\* branch.
C2_ModeExclusivity ==
    [][/\ (pc = "branch" /\ pc' # "branch") =>
            /\ (p.doubling_time # None /\ p.date_first_hospitalized = None)
                   => pc' = "dz_argmin"
            /\ (p.doubling_time = None /\ p.date_first_hospitalized # None)
                   => pc' = "calib_loop"
            /\ ((p.doubling_time = None) = (p.date_first_hospitalized = None))
                   => /\ pc' = "AssertionError"
                      /\ self'.raw_df = None
                      /\ self'.census_df = None
                      /\ self'.sim_sir_w_date_df = None
       /\ (pc' \in DayZeroPcs /\ pc \notin DayZeroPcs) => pc = "branch"
       /\ (pc' \in CalibPcs /\ pc \notin CalibPcs) => pc = "branch"
       /\ (pc' = "AssertionError" /\ pc # "AssertionError") => pc = "branch"
       /\ (pc' = "finish" /\ pc # "finish") => pc \in {"dz_adopt", "calib_restore"}
      ]_vars

\* The first run on Parameters that supply both inputs has raised.
C2_Witness ==
    /\ pc = "AssertionError"
    /\ runs = 1
    /\ p.doubling_time # None
    /\ p.date_first_hospitalized # None

\* C3: after a date-first-hospitalized run with i_day >= 0, the fitted
\* doubling time is a candidate whose loss is no larger than any of the 29
\* losses and smaller than the loss of every lower candidate, and the loss
\* of the final projection equals it.
C3_CalibrationSelection ==
    (DoneByDate /\ self.n_days_since[1] >= 0) =>
        \E k \in 1..NumCandidates :
            /\ p.doubling_time = dts(k - 1)
            /\ \A j \in 1..NumCandidates : LessEq(loc.losses[k], loc.losses[j])
            /\ \A j \in 1..(k - 1) : Less(loc.losses[k], loc.losses[j])
            /\ Same(get_loss(self), loc.losses[k])

\* C4: when the second Day-Zero projection succeeds, i_day is the lowest
\* row of the first projection's census whose hospitalized value has the
\* least squared error against current_hospitalized among the defined rows,
\* and row i_day of the second census has day 0 and that same value.
C4_DayZeroAnchor ==
    [][(pc = "dz_rerun" /\ pc' = "dz_adopt") =>
          LET first == self.census_df.hospitalized
              second == self'.census_df.hospitalized
              k == self.i_day[1] + 1
              err(j) == SquaredError(first[j], p.current_hospitalized)
          IN  /\ k \in Valid(first)
              /\ \A j \in Valid(first) : LessEq(err(k), err(j))
              /\ \A j \in Valid(first) : j < k => Less(err(k), err(j))
              /\ self'.i_day = self.i_day
              /\ self'.census_df.day[k] = 0
              /\ second[k] = first[k]
      ]_vars

\* The Day-Zero branch has re-anchored at a row past the first defined one.
C4_Witness ==
    /\ pc = "dz_adopt"
    /\ self.i_day[1] >= 2
    /\ self.census_df.day[self.i_day[1] + 1] = 0

\* C5: for every category with length of stay L, the census built from an
\* admission table of length M has exactly M - L defined rows, and none
\* when L >= M.
C5_PipelineLength ==
    self.census_df # None =>
        \A key \in Keys :
            LET M == Len(self.admits_df.day)
                L == self.lengths_of_stay[key]
            IN  Cardinality(Valid(self.census_df[key])) =
                    IF L >= M THEN 0 ELSE M - L

\* C6: no step of a model run changes the Parameters.
C6_RunIndependence == [][p' = p]_vars

\* C7: every defined census value of a category with length of stay L is
\* the ceiling of the sum of the admissions of the L rows ending at its
\* row, the window being cut off at the first defined admission (row 1).
C7_CensusWindow ==
    self.census_df # None =>
        \A key \in Keys :
            \A k \in Valid(self.census_df[key]) :
                self.census_df[key][k] =
                    Ceil(SumBetween(self.admits_df[key],
                                    Max(k - self.lengths_of_stay[key] + 1, 2),
                                    k))

\* A census value is defined, positive, and its whole window lies inside
\* the defined admissions.
C7_Witness ==
    /\ self.census_df # None
    /\ \E key \in Keys :
           \E k \in Valid(self.census_df[key]) :
               /\ k - self.lengths_of_stay[key] >= 2
               /\ Less(Float(0), self.census_df[key][k])

\* C8: after a doubling-time run the exposed beta is the discounted one,
\* (growth_rate + gamma) / susceptible * (1 - relative_contact_rate).
C8_DiscountRestored ==
    DoneByDoublingTime =>
        self.beta =
            Mul(Div(Add(get_growth_rate(p.doubling_time), loc.gamma),
                    loc.susceptible),
                Sub(Float(1), p.relative_contact_rate))

\* C9: after a date-first-hospitalized run the exposed r_naught is
\* (growth_rate(fitted doubling time) + gamma) / gamma and the exposed beta
\* is the beta of the final projection, derived from the fitted doubling
\* time.
C9_DerivedRatesFitted ==
    DoneByDate =>
        /\ self.r_naught =
               Div(Add(get_growth_rate(p.doubling_time), self.gamma),
                   self.gamma)
        /\ self.beta =
               Div(Add(get_growth_rate(p.doubling_time), self.gamma),
                   self.susceptible)

\* C10: the first row of every raw trajectory, the initial state of the
\* projection, has S + I + R equal to the Parameters population.
C10_PopulationTotal ==
    self.raw_df # None =>
        Add(Add(self.raw_df.susceptible[1], self.raw_df.infected[1]),
            self.raw_df.recovered[1]) = p.population

=============================================================================
